---- MODULE Spec2Model ----
(***************************************************************************)
(* Model of the duplicate-detection and safe-mutation engine of            *)
(* clean.py (is_path_safe, DuplicateFinder, EmptyFolderSweeper) and of     *)
(* get_unique_path in Downloads.py.                                        *)
(*                                                                         *)
(* A file name is a sequence of tokens ("a", ".", "txt"); a path is a      *)
(* sequence of names below the drive root, which is the empty path.        *)
(* A file's content is a sequence of bytes.                                *)
(*                                                                         *)
(* The tool is the only writer of the filesystem (spec section 4.2): what  *)
(* makes a read or a move fail is a property of the file (unreadable,      *)
(* locked) that lasts for the whole behaviour; stat(), mkdir() and rmdir() *)
(* do not fail.  SHA-256 is taken as collision-free.                       *)
(***************************************************************************)
EXTENDS Integers, Sequences, FiniteSets, TLC

VARIABLES
    files,        \* real path of each regular file -> its content
    dirs,         \* real paths of the directories
    links,        \* symlinks / junctions: path -> target path
    environ,      \* os.environ: variable name -> path
    unreadable,   \* files whose open() raises PermissionError / OSError
    locked,       \* files whose shutil.move raises PermissionError
    target_dir,   \* DuplicateFinder.target_dir / EmptyFolderSweeper.target_dir
    pc,           \* position inside find_and_move
    size_dict,    \* find_and_move: size -> paths, in insertion order
    hash_dict,    \* find_and_move: digest -> paths, in insertion order
    duplicates,   \* find_and_move: the groups with more than one path
    gi,           \* index of the group being processed
    mi,           \* index of the member being processed
    total_dupes,  \* find_and_move: total_dupes
    space_saved,  \* find_and_move: space_saved
    log,          \* system_cleanup.log
    stdout,       \* what print() wrote
    hist,         \* one record per operation started (history)
    guard_result, \* result of a direct call of is_path_safe
    desired,      \* argument of a destination resolution
    resolved      \* result of a destination resolution

fsVars   == <<files, dirs, links, environ, unreadable, locked>>
scanVars == <<size_dict, hash_dict, duplicates, gi, mi, total_dupes, space_saved>>
pureVars == <<guard_result, desired, resolved>>
vars == <<files, dirs, links, environ, unreadable, locked, target_dir, pc,
          size_dict, hash_dict, duplicates, gi, mi, total_dupes, space_saved,
          log, stdout, hist, guard_result, desired, resolved>>

(***************************************************************************)
(* Bounds of the model                                                     *)
(***************************************************************************)
MaxOps == 2
MaxDenied == 1
MaxDepth == 2
MaxTaken == 2

(***************************************************************************)
(* Sequences                                                               *)
(***************************************************************************)
Range(s) == {s[i] : i \in DOMAIN s}

IsPrefix(a, b) == Len(a) <= Len(b) /\ SubSeq(b, 1, Len(a)) = a

RECURSIVE SelectSeq2(_, _)
\* the elements of s that are in the set S, order kept
SelectSeq2(s, S) ==
    IF s = <<>> THEN <<>>
    ELSE IF Head(s) \in S THEN <<Head(s)>> \o SelectSeq2(Tail(s), S)
         ELSE SelectSeq2(Tail(s), S)

(***************************************************************************)
(* pathlib                                                                 *)
(***************************************************************************)
\* Path.parents: the proper ancestors of p
Parents(p) == {SubSeq(p, 1, k) : k \in 0..(Len(p) - 1)}

\* Path.parent
Parent(p) == IF p = <<>> THEN <<>> ELSE SubSeq(p, 1, Len(p) - 1)

\* Path.name
Name(p) == IF p = <<>> THEN <<>> ELSE p[Len(p)]

\* the / operator
Join(d, name) == Append(d, name)

\* str.rfind('.') on a name, 1-based; 0 when there is no dot
RFindDot(n) ==
    LET dots == {i \in DOMAIN n : n[i] = "."}
    IN IF dots = {} THEN 0 ELSE CHOOSE i \in dots : \A j \in dots : j <= i

\* Path.suffix: from the last dot, unless the dot leads or ends the name
Suffix(n) ==
    LET i == RFindDot(n)
    IN IF 1 < i /\ i < Len(n) THEN SubSeq(n, i, Len(n)) ELSE <<>>

\* Path.stem
Stem(n) ==
    LET i == RFindDot(n)
    IN IF 1 < i /\ i < Len(n) THEN SubSeq(n, 1, i - 1) ELSE n

Digit(d) == CASE d = 0 -> "0" [] d = 1 -> "1" [] d = 2 -> "2" [] d = 3 -> "3"
              [] d = 4 -> "4" [] d = 5 -> "5" [] d = 6 -> "6" [] d = 7 -> "7"
              [] d = 8 -> "8" [] d = 9 -> "9"

RECURSIVE IntToStr(_)
\* str(counter) in an f-string
IntToStr(n) == IF n < 10 THEN <<Digit(n)>> ELSE IntToStr(n \div 10) \o <<Digit(n % 10)>>

RECURSIVE ResolveFrom(_, _)
ResolveFrom(cur, rest) ==
    IF rest = <<>> THEN cur
    ELSE LET nxt == Append(cur, Head(rest))
         IN IF nxt \in DOMAIN links
            THEN ResolveFrom(<<>>, links[nxt] \o Tail(rest))
            ELSE ResolveFrom(nxt, Tail(rest))

\* Path.resolve(), strict=False: links are followed, a missing tail is kept
Resolve(p) == ResolveFrom(<<>>, p)

\* Path.exists()
Exists(p) == Resolve(p) \in (DOMAIN files) \cup dirs

\* Path.is_file()
IsFile(p) == Resolve(p) \in DOMAIN files

\* Path.is_dir()
IsDir(p) == Resolve(p) \in dirs

(***************************************************************************)
(* Names and paths of the modelled machine                                 *)
(***************************************************************************)
Root == <<>>
Windows == <<"Windows">>
ProgramFiles == <<"Program Files">>
ProgramFilesX86 == <<"Program Files (x86)">>
Users == <<"Users">>
Sub == <<"sub">>
Temp == <<"Temp">>
Link == <<"Link">>
Gone == <<"Gone">>
Downloads == <<"Downloads">>
Images == <<"Images">>
Duplicate_Review == <<"Duplicate_Review">>
a_txt == <<"a", ".", "txt">>
b_txt == <<"b", ".", "txt">>
a_noext == <<"a">>
dot_b == <<".", "b">>

(***************************************************************************)
(* clean.py: configuration                                                 *)
(***************************************************************************)
\* os.environ.get(key, default)
EnvGet(key, default) == IF key \in DOMAIN environ THEN environ[key] ELSE default

\* the protected roots, resolved when the module is loaded
PROTECTED_DIRS ==
    { Resolve(EnvGet("WINDIR", <<Windows>>)),
      Resolve(EnvGet("PROGRAMFILES", <<ProgramFiles>>)),
      Resolve(EnvGet("PROGRAMFILES(X86)", <<ProgramFilesX86>>)) }

\* is_path_safe with the equality test left out
is_path_safe_NoEquality(target_path) ==
    LET target_resolved == Resolve(target_path)
    IN ~ \E protected \in PROTECTED_DIRS : protected \in Parents(target_resolved)

is_path_safe(target_path) ==
    LET target_resolved == Resolve(target_path)
    IN ~ \E protected \in PROTECTED_DIRS :
            protected \in Parents(target_resolved) \/ target_resolved = protected

(***************************************************************************)
(* Destination resolution                                                  *)
(***************************************************************************)
RECURSIVE UniqueProbe(_, _, _, _)
\* Downloads.py: the while True loop of get_unique_path
UniqueProbe(base_name, extension, directory, counter) ==
    LET new_name == base_name \o <<" (">> \o IntToStr(counter) \o <<")">> \o extension
        new_path == Join(directory, new_name)
    IN IF ~Exists(new_path) THEN new_path
       ELSE UniqueProbe(base_name, extension, directory, counter + 1)

\* get_unique_path returning the first probe without testing it
get_unique_path_NoLoop(destination_path) ==
    IF ~Exists(destination_path) THEN destination_path
    ELSE Join(Parent(destination_path),
              Stem(Name(destination_path)) \o <<" (", "1", ")">>
                  \o Suffix(Name(destination_path)))

\* Downloads.py: get_unique_path
get_unique_path(destination_path) ==
    IF ~Exists(destination_path) THEN destination_path
    ELSE UniqueProbe(Stem(Name(destination_path)), Suffix(Name(destination_path)),
                     Parent(destination_path), 1)

RECURSIVE ReviewProbe(_, _, _, _)
\* clean.py: the while dest_path.exists() loop of find_and_move
ReviewProbe(dest_path, review_dir, dupe, counter) ==
    IF ~Exists(dest_path) THEN dest_path
    ELSE ReviewProbe(Join(review_dir,
                          Stem(Name(dupe)) \o <<"_">> \o IntToStr(counter)
                              \o Suffix(Name(dupe))),
                     review_dir, dupe, counter + 1)

\* the destination taken without the collision loop
ReviewDest_NoProbe(review_dir, dupe) == Join(review_dir, Name(dupe))

\* clean.py: the destination of a duplicate inside the review directory
ReviewDest(review_dir, dupe) ==
    ReviewProbe(Join(review_dir, Name(dupe)), review_dir, dupe, 1)

\* DuplicateFinder.__init__: self.review_dir
ReviewDir(t) == Join(t, Duplicate_Review)

(***************************************************************************)
(* Directory traversal                                                     *)
(***************************************************************************)
\* the order in which os.scandir lists names: by token, in this order
TokenOrder == <<" (", ")", ".", "_", "0", "1", "2", "3", "4", "5", "6", "7", "8", "9",
                "Downloads", "Duplicate_Review", "Gone", "Images", "Link",
                "Program Files", "Program Files (x86)", "Temp", "Users", "Windows",
                "a", "b", "sub", "txt">>

TokenRank(t) == CHOOSE i \in DOMAIN TokenOrder : TokenOrder[i] = t

RECURSIVE NameLess(_, _)
NameLess(m, n) ==
    IF n = <<>> THEN FALSE
    ELSE IF m = <<>> THEN TRUE
    ELSE IF Head(m) = Head(n) THEN NameLess(Tail(m), Tail(n))
    ELSE TokenRank(Head(m)) < TokenRank(Head(n))

RECURSIVE SortByName(_)
\* the paths of S (all in one directory) in scandir order
SortByName(S) ==
    IF S = {} THEN <<>>
    ELSE LET first == CHOOSE p \in S : \A q \in S \ {p} : NameLess(Name(p), Name(q))
         IN <<first>> \o SortByName(S \ {first})

\* os.scandir(d): the entries of the directory with real path d
Entries(d, ds) ==
    SortByName({p \in (DOMAIN files) \cup ds \cup (DOMAIN links) :
                    p # <<>> /\ Parent(p) = d})

RECURSIVE Walk(_)
RECURSIVE WalkEach(_)
\* Path.rglob('*') below the real directory d: the entries of d, then those of
\* each subdirectory in turn; symlinked directories are not entered
Walk(d) ==
    LET es == Entries(d, dirs)
    IN es \o WalkEach(SelectSeq2(es, dirs))

WalkEach(ds) == IF ds = <<>> THEN <<>> ELSE Walk(Head(ds)) \o WalkEach(Tail(ds))

RECURSIVE Rebase(_, _, _)
Rebase(ps, from, to) ==
    IF ps = <<>> THEN <<>>
    ELSE <<to \o SubSeq(Head(ps), Len(from) + 1, Len(Head(ps)))>>
             \o Rebase(Tail(ps), from, to)

\* target.rglob('*'): the paths below target, spelled from target
rglob(target) ==
    IF ~IsDir(target) THEN <<>>
    ELSE Rebase(Walk(Resolve(target)), Resolve(target), target)

(***************************************************************************)
(* Files                                                                   *)
(***************************************************************************)
\* filepath.stat().st_size
st_size(filepath) == Len(files[Resolve(filepath)])

chunk_size == 8192

RECURSIVE HashChunks(_, _, _)
\* the read loop of _get_file_hash: hasher.update(chunk) until f.read is empty
HashChunks(content, pos, hasher) ==
    LET last == IF pos + chunk_size - 1 < Len(content)
                THEN pos + chunk_size - 1 ELSE Len(content)
        chunk == SubSeq(content, pos, last)
    IN IF chunk = <<>> THEN hasher
       ELSE HashChunks(content, last + 1, hasher \o chunk)

\* hasher.hexdigest(): SHA-256 taken as collision-free, and never empty
hexdigest(hasher) == <<"sha256">> \o hasher

\* DuplicateFinder._get_file_hash: "" when the file cannot be read
get_file_hash(filepath) ==
    IF Resolve(filepath) \in unreadable THEN <<>>
    ELSE hexdigest(HashChunks(files[Resolve(filepath)], 1, <<>>))

(***************************************************************************)
(* Dictionaries in insertion order: sequences of [key, paths]              *)
(***************************************************************************)
\* d.setdefault(k, []).append(v)
SetDefaultAppend(d, k, v) ==
    IF \E i \in DOMAIN d : d[i].key = k
    THEN LET i == CHOOSE j \in DOMAIN d : d[j].key = k
         IN [d EXCEPT ![i].paths = Append(@, v)]
    ELSE Append(d, [key |-> k, paths |-> <<v>>])

RECURSIVE PotentialDupes(_)
\* {size: paths for size, paths in size_dict.items() if len(paths) > 1}
PotentialDupes(d) ==
    IF d = <<>> THEN <<>>
    ELSE IF Len(Head(d).paths) > 1 THEN <<Head(d)>> \o PotentialDupes(Tail(d))
         ELSE PotentialDupes(Tail(d))

\* the group filter that keeps the groups of one
IsDuplicateGroup_Any(paths) == Len(paths) > 0

\* if len(paths) > 1
IsDuplicateGroup(paths) == Len(paths) > 1

RECURSIVE TrueDuplicates(_)
\* {h: paths for h, paths in hash_dict.items() if len(paths) > 1}
TrueDuplicates(d) ==
    IF d = <<>> THEN <<>>
    ELSE IF IsDuplicateGroup(Head(d).paths) THEN <<Head(d)>> \o TrueDuplicates(Tail(d))
         ELSE TrueDuplicates(Tail(d))

RECURSIVE AllPaths(_)
\* every path of every entry, in order
AllPaths(d) == IF d = <<>> THEN <<>> ELSE Head(d).paths \o AllPaths(Tail(d))

(***************************************************************************)
(* Output                                                                  *)
(***************************************************************************)
\* one line of system_cleanup.log
LogLine(level, event, path, dest) ==
    [level |-> level, event |-> event, path |-> path, dest |-> dest]

\* one print() call
Printed(msg, count, mb) == [msg |-> msg, count |-> count, mb |-> mb]

\* f"{space_saved / (1024 * 1024):.2f}", in hundredths of a MB (ties to even)
FormatMB(bytes) ==
    LET q == (bytes * 100) \div (1024 * 1024)
        r == (bytes * 100) % (1024 * 1024)
    IN IF 2 * r > 1024 * 1024 \/ (2 * r = 1024 * 1024 /\ q % 2 = 1) THEN q + 1 ELSE q

\* the record kept of one operation
OpRecord(op, safe, dry, done) ==
    [op |-> op, target |-> target_dir, safe |-> safe, dry |-> dry, done |-> done,
     pre_files |-> files, pre_dirs |-> dirs,
     enumerated |-> <<>>, hashed |-> <<>>, moved |-> <<>>, failed |-> <<>>]

Cur == hist[Len(hist)]

(***************************************************************************)
(* DuplicateFinder.find_and_move                                           *)
(***************************************************************************)
\* the test of line 100 with the guard's answer ignored
find_and_move_refuses_Never(t) == FALSE

\* if not is_path_safe(self.target_dir): ... return
find_and_move_refuses(t) == ~is_path_safe(t)

\* the scan filter without the review-directory exclusion
ScanFilter_NoExclusion(filepath, review_dir) == IsFile(filepath)

\* filepath.is_file() and not self.review_dir in filepath.parents
ScanFilter(filepath, review_dir) ==
    IsFile(filepath) /\ ~(review_dir \in Parents(filepath))

RECURSIVE ScanLoop(_, _, _)
\* the rglob loop: size_dict.setdefault(size, []).append(filepath)
ScanLoop(ps, review_dir, sd) ==
    IF ps = <<>> THEN sd
    ELSE IF ScanFilter(Head(ps), review_dir)
         THEN ScanLoop(Tail(ps), review_dir,
                       SetDefaultAppend(sd, st_size(Head(ps)), Head(ps)))
         ELSE ScanLoop(Tail(ps), review_dir, sd)

\* if file_hash:
HashAccepted(file_hash) == file_hash # <<>>

RECURSIVE HashLoop(_, _, _)
\* the loop over potential_dupes: [hash_dict, log] after hashing the paths ps
HashLoop(ps, hd, lg) ==
    IF ps = <<>> THEN [hash_dict |-> hd, log |-> lg]
    ELSE LET file_hash == get_file_hash(Head(ps))
             lg2 == IF file_hash = <<>>
                    THEN Append(lg, LogLine("ERROR", "hash_failed", Head(ps), <<>>))
                    ELSE lg
         IN IF HashAccepted(file_hash)
            THEN HashLoop(Tail(ps), SetDefaultAppend(hd, file_hash, Head(ps)), lg2)
            ELSE HashLoop(Tail(ps), hd, lg2)

\* the members moved when the first is moved as well
Dupes_All(paths) == paths

\* paths[1:]: every member but the first
Dupes(paths) == Tail(paths)

\* lines 99-133: the guard, the scan by size, the hashing and the grouping
FAM_Begin ==
    /\ pc = "idle"
    /\ Len(hist) < MaxOps
    /\ IF find_and_move_refuses(target_dir)
       THEN /\ stdout' = stdout \o <<Printed("scanning", 0, 0),
                                    Printed("security_violation", 0, 0)>>
            /\ hist' = Append(hist, OpRecord("find_and_move",
                                             is_path_safe(target_dir), FALSE, TRUE))
            /\ pc' = "idle"
            /\ size_dict' = <<>>
            /\ hash_dict' = <<>>
            /\ duplicates' = <<>>
            /\ UNCHANGED <<dirs, log>>
       ELSE LET sd == ScanLoop(rglob(target_dir), ReviewDir(target_dir), <<>>)
                potential_dupes == PotentialDupes(sd)
                hashed == HashLoop(AllPaths(potential_dupes), <<>>, log)
                dups == TrueDuplicates(hashed.hash_dict)
                rec == [OpRecord("find_and_move", is_path_safe(target_dir),
                                 FALSE, dups = <<>>)
                            EXCEPT !.enumerated = AllPaths(sd),
                                   !.hashed = AllPaths(potential_dupes)]
            IN /\ size_dict' = sd
               /\ hash_dict' = hashed.hash_dict
               /\ log' = hashed.log
               /\ duplicates' = dups
               /\ hist' = Append(hist, rec)
               /\ IF dups = <<>>
                  THEN /\ stdout' = stdout \o <<Printed("scanning", 0, 0),
                                               Printed("no_duplicates", 0, 0)>>
                       /\ pc' = "idle"
                       /\ UNCHANGED dirs
                  ELSE /\ stdout' = Append(stdout, Printed("scanning", 0, 0))
                       /\ dirs' = dirs \cup {Resolve(ReviewDir(target_dir))}
                       /\ pc' = "move"
    /\ gi' = 1
    /\ mi' = 1
    /\ total_dupes' = 0
    /\ space_saved' = 0
    /\ UNCHANGED <<files, links, environ, unreadable, locked, target_dir, pureVars>>

\* the position of the loops of lines 135-138 after the member at (g, m)
NextMember(g, m) ==
    IF m < Len(Dupes(duplicates[g].paths)) THEN <<g, m + 1>> ELSE <<g + 1, 1>>

\* the position after a failed move if the handler were outside the loops
AfterFailure_Abort(g, m) == <<Len(duplicates) + 1, 1>>

\* lines 151-152: the except clause is inside the loops, which go on
AfterFailure(g, m) == NextMember(g, m)

\* lines 135-152: one pass of the loop over paths[1:] of the group at gi
FAM_MoveOne ==
    /\ pc = "move"
    /\ gi <= Len(duplicates)
    /\ mi <= Len(Dupes(duplicates[gi].paths))
    /\ LET dupe == Dupes(duplicates[gi].paths)[mi]
           dest_path == ReviewDest(ReviewDir(target_dir), dupe)
           src == Resolve(dupe)
           dst == Resolve(dest_path)
       IN /\ space_saved' = space_saved + st_size(dupe)
          /\ IF src \in locked
             THEN /\ log' = Append(log, LogLine("ERROR", "move_failed", dupe, <<>>))
                  /\ hist' = [hist EXCEPT ![Len(hist)].failed = Append(@, dupe)]
                  /\ gi' = AfterFailure(gi, mi)[1]
                  /\ mi' = AfterFailure(gi, mi)[2]
                  /\ UNCHANGED <<files, total_dupes>>
             ELSE /\ files' = [p \in ((DOMAIN files) \ {src}) \cup {dst} |->
                                  IF p = dst THEN files[src] ELSE files[p]]
                  /\ log' = Append(log, LogLine("INFO", "moved", dupe, dest_path))
                  /\ total_dupes' = total_dupes + 1
                  /\ hist' = [hist EXCEPT ![Len(hist)].moved =
                                              Append(@, <<dupe, dest_path>>)]
                  /\ gi' = NextMember(gi, mi)[1]
                  /\ mi' = NextMember(gi, mi)[2]
    /\ UNCHANGED <<dirs, links, environ, unreadable, locked, target_dir, pc, size_dict,
                   hash_dict, duplicates, stdout, pureVars>>

\* lines 154-156
FAM_Report ==
    /\ pc = "move"
    /\ gi > Len(duplicates)
    /\ stdout' = stdout \o <<Printed("moved", total_dupes, 0),
                             Printed("space", 0, FormatMB(space_saved))>>
    /\ hist' = [hist EXCEPT ![Len(hist)].done = TRUE]
    /\ pc' = "idle"
    /\ UNCHANGED <<fsVars, target_dir, scanVars, log, pureVars>>

(***************************************************************************)
(* EmptyFolderSweeper.sweep                                                *)
(***************************************************************************)
\* the test of line 165 with the guard's answer ignored
sweep_refuses_Never(t) == FALSE

\* if not is_path_safe(self.target_dir): ... return
sweep_refuses(t) == ~is_path_safe(t)

RECURSIVE PostOrder(_)
RECURSIVE PostOrderEach(_)
\* os.walk(d, topdown=False): every subdirectory before its parent
PostOrder(d) == PostOrderEach(SelectSeq2(Entries(d, dirs), dirs)) \o <<d>>

PostOrderEach(ds) ==
    IF ds = <<>> THEN <<>> ELSE PostOrder(Head(ds)) \o PostOrderEach(Tail(ds))

RECURSIVE SweepLoop(_, _, _, _, _, _)
\* the loop of sweep over the walked directories: [dirs, log, stdout, count] after it
SweepLoop(walked, top, dry_run, ds, lg, deleted_count) ==
    IF walked = <<>> THEN [dirs |-> ds, log |-> lg, count |-> deleted_count]
    ELSE LET current_dir == Head(walked)
         IN IF current_dir = top
            THEN SweepLoop(Tail(walked), top, dry_run, ds, lg, deleted_count)
            ELSE IF Entries(current_dir, ds) = <<>>
            THEN IF dry_run
                 THEN SweepLoop(Tail(walked), top, dry_run, ds, lg, deleted_count + 1)
                 ELSE SweepLoop(Tail(walked), top, dry_run, ds \ {current_dir},
                                Append(lg, LogLine("INFO", "deleted_folder",
                                                   current_dir, <<>>)),
                                deleted_count + 1)
            ELSE SweepLoop(Tail(walked), top, dry_run, ds, lg, deleted_count)

\* lines 163-191
Sweep ==
    /\ pc = "idle"
    /\ Len(hist) < MaxOps
    /\ \E dry_run \in BOOLEAN :
        IF sweep_refuses(target_dir)
        THEN /\ stdout' = stdout \o <<Printed("sweeper", 0, 0),
                                     Printed("security_violation", 0, 0)>>
             /\ hist' = Append(hist, OpRecord("sweep", is_path_safe(target_dir),
                                              dry_run, TRUE))
             /\ UNCHANGED <<dirs, log>>
        ELSE LET top == Resolve(target_dir)
                 swept == SweepLoop(IF IsDir(target_dir) THEN PostOrder(top) ELSE <<>>,
                                    top, dry_run, dirs, log, 0)
             IN /\ dirs' = swept.dirs
                /\ log' = swept.log
                /\ stdout' = stdout \o <<Printed("sweeper", 0, 0),
                                        Printed("sweeper_complete", swept.count, 0)>>
                /\ hist' = Append(hist, OpRecord("sweep", is_path_safe(target_dir),
                                                 dry_run, TRUE))
    /\ UNCHANGED <<files, links, environ, unreadable, locked, target_dir, pc, scanVars,
                   pureVars>>

(***************************************************************************)
(* The cleanup tool: one DuplicateFinder and one EmptyFolderSweeper on a   *)
(* directory the user entered                                              *)
(***************************************************************************)
\* the contents a candidate file may have: some equal, some of equal size, one
\* of another size
Contents(p) ==
    IF p = <<Users, a_txt>> THEN {<<1>>}
    ELSE IF p = <<Users, b_txt>> THEN {<<1>>, <<1, 1>>}
    ELSE IF p = <<Users, Sub, a_txt>> THEN {<<1>>, <<2>>}
    ELSE {<<2>>}

\* the files that may exist at the start
CandidateFiles == { <<Users, a_txt>>, <<Users, b_txt>>, <<Users, Sub, a_txt>>,
                    <<Windows, a_txt>> }

\* a file already in the review directory of Users
ReviewedFile == <<Users, Duplicate_Review, a_txt>>

BaseDirs == { Root, <<Users>>, <<Users, Sub>>, <<Windows>>, <<Windows, Temp>> }

\* the directories the user may enter: main() asks for path.is_dir()
Targets == { Root, <<Users>>, <<Windows>>, <<Link>> }

NoEnviron == [k \in {} |-> <<>>]

NoResolution == [by |-> "none", path |-> <<>>]

Init ==
    /\ \E S \in SUBSET CandidateFiles :
         \E f \in {g \in [S -> {<<1>>, <<2>>, <<1, 1>>}] : \A p \in S : g[p] \in Contents(p)} :
         \E reviewed \in BOOLEAN :
            /\ files = IF reviewed
                       THEN [p \in S \cup {ReviewedFile} |->
                                IF p = ReviewedFile THEN <<1>> ELSE f[p]]
                       ELSE f
            /\ dirs = IF reviewed THEN BaseDirs \cup {<<Users, Duplicate_Review>>}
                      ELSE BaseDirs
    /\ links = [p \in {<<Link>>} |-> <<Windows>>]
    /\ environ = NoEnviron
    /\ \E U \in SUBSET (DOMAIN files) : \E L \in SUBSET ((DOMAIN files) \ U) :
            /\ Cardinality(U) + Cardinality(L) <= MaxDenied
            /\ unreadable = U
            /\ locked = L
    /\ target_dir \in Targets
    /\ pc = "idle"
    /\ size_dict = <<>>
    /\ hash_dict = <<>>
    /\ duplicates = <<>>
    /\ gi = 0
    /\ mi = 0
    /\ total_dupes = 0
    /\ space_saved = 0
    /\ log = <<>>
    /\ stdout = <<>>
    /\ hist = <<>>
    /\ guard_result = "none"
    /\ desired = <<>>
    /\ resolved = NoResolution

Next ==
    \/ FAM_Begin
    \/ FAM_MoveOne
    \/ FAM_Report
    \/ Sweep

Spec == Init /\ [][Next]_vars

(***************************************************************************)
(* is_path_safe called on any path                                         *)
(***************************************************************************)
\* the program before any operation, with nothing entered
ProgramIdle ==
    /\ pc = "idle"
    /\ size_dict = <<>>
    /\ hash_dict = <<>>
    /\ duplicates = <<>>
    /\ gi = 0
    /\ mi = 0
    /\ total_dupes = 0
    /\ space_saved = 0
    /\ log = <<>>
    /\ stdout = <<>>
    /\ hist = <<>>

GuardNames == {Windows, ProgramFiles, Users, Link, Sub}

RECURSIVE PathsUpTo(_)
\* the paths of at most n names
PathsUpTo(n) ==
    IF n = 0 THEN {<<>>}
    ELSE LET shorter == PathsUpTo(n - 1)
         IN shorter \cup {Append(p, c) : p \in shorter, c \in GuardNames}

\* the junction at \Link: absent, or onto a directory, or broken
GuardLinks ==
    {[p \in {} |-> <<>>]}
        \cup {[p \in {<<Link>>} |-> t] :
                 t \in {<<Windows>>, <<Users>>, <<Gone>>, <<ProgramFiles, Sub>>}}

\* the environment: the defaults, or a system directory set elsewhere
GuardEnvirons ==
    { NoEnviron,
      [k \in {"WINDIR"} |-> <<Users, Windows>>],
      [k \in {"PROGRAMFILES"} |-> <<Link>>] }

InitGuard ==
    /\ files = [p \in {<<Users, a_txt>>, <<Windows, a_txt>>} |-> <<1>>]
    /\ dirs = BaseDirs
    /\ links \in GuardLinks
    /\ environ \in GuardEnvirons
    /\ unreadable = {}
    /\ locked = {}
    /\ target_dir \in PathsUpTo(MaxDepth)
    /\ ProgramIdle
    /\ guard_result = "none"
    /\ desired = <<>>
    /\ resolved = NoResolution

\* a call of is_path_safe(target_dir)
CallIsPathSafe ==
    /\ guard_result = "none"
    /\ guard_result' = IF is_path_safe(target_dir) THEN "True" ELSE "False"
    /\ UNCHANGED <<fsVars, target_dir, pc, scanVars, log, stdout, hist, desired, resolved>>

NextGuard == CallIsPathSafe

SpecGuard == InitGuard /\ [][NextGuard]_vars

(***************************************************************************)
(* Destination resolution called on any directory content                  *)
(***************************************************************************)
\* the names a directory may hold: the desired ones and their counted forms
TakenNames ==
    {a_txt, a_noext, dot_b, <<"a", " (", "1", ")">>, <<"a", "_", "1">>,
     <<".", "b", " (", "1", ")">>, <<".", "b", "_", "1">>}
        \cup {<<"a", " (">> \o IntToStr(k) \o <<")", ".", "txt">> : k \in 1..MaxTaken}
        \cup {<<"a", "_">> \o IntToStr(k) \o <<".", "txt">> : k \in 1..MaxTaken}

DesiredNames == {a_txt, a_noext, dot_b}

ResolutionDirs == {<<Downloads, Images>>, <<Users, Duplicate_Review>>}

InitNamer ==
    /\ \E d \in ResolutionDirs : \E S \in SUBSET TakenNames : \E n \in DesiredNames :
          /\ files = [p \in {Join(d, m) : m \in S} \cup {<<Users, n>>} |-> <<1>>]
          /\ desired = Join(d, n)
    /\ dirs = {Root, <<Users>>, <<Downloads>>} \cup ResolutionDirs
    /\ links = [p \in {} |-> <<>>]
    /\ environ = NoEnviron
    /\ unreadable = {}
    /\ locked = {}
    /\ target_dir = <<Users>>
    /\ ProgramIdle
    /\ guard_result = "none"
    /\ resolved = NoResolution

\* Downloads.py line 57: get_unique_path(target_dir / file_path.name)
CallGetUniquePath ==
    /\ resolved.by = "none"
    /\ resolved' = [by |-> "get_unique_path", path |-> get_unique_path(desired)]
    /\ UNCHANGED <<fsVars, target_dir, pc, scanVars, log, stdout, hist, guard_result,
                   desired>>

\* clean.py lines 141-146: the destination of the duplicate named as desired
CallReviewDest ==
    /\ resolved.by = "none"
    /\ Parent(desired) = ReviewDir(target_dir)
    /\ resolved' = [by |-> "find_and_move",
                    path |-> ReviewDest(ReviewDir(target_dir),
                                        Join(target_dir, Name(desired)))]
    /\ UNCHANGED <<fsVars, target_dir, pc, scanVars, log, stdout, hist, guard_result,
                   desired>>

NextNamer ==
    \/ CallGetUniquePath
    \/ CallReviewDest

SpecNamer == InitNamer /\ [][NextNamer]_vars

(***************************************************************************)
(* Properties                                                              *)
(***************************************************************************)
\* p, resolved, is a protected root or lies below one
UnderProtectedRoot(p) == \E r \in PROTECTED_DIRS : IsPrefix(r, Resolve(p))

\* the position of x in the sequence s (0 when absent)
IndexOf(s, x) ==
    IF \E i \in DOMAIN s : s[i] = x THEN CHOOSE i \in DOMAIN s : s[i] = x ELSE 0

\* the paths a run moved away
MovedFrom(rec) == {m[1] : m \in Range(rec.moved)}

\* the digest of a content, as _get_file_hash computes it for a readable file
DigestOf(content) == hexdigest(HashChunks(content, 1, <<>>))

\* C1: is_path_safe(p) is False exactly when the resolved form of p is a
\* protected root or has a protected root among its ancestors, for every path
\* and every set of protected roots.
C1_GuardMatchesProtectedRoots ==
    guard_result # "none" =>
        ((guard_result = "False") <=> UnderProtectedRoot(target_dir))

\* is_path_safe answered False for a junction that resolves onto a protected root
C1_Witness ==
    /\ guard_result = "False"
    /\ target_dir # Resolve(target_dir)
    /\ Resolve(target_dir) \in PROTECTED_DIRS

\* C2: when is_path_safe(root) is False, find_and_move and sweep return with
\* the filesystem unchanged: nothing enumerated, hashed or moved, no directory
\* removed, the review directory not created.
C2_RefusedRootUntouched ==
    (hist # <<>> /\ ~Cur.safe) =>
        /\ Cur.done
        /\ files = Cur.pre_files
        /\ dirs = Cur.pre_dirs
        /\ Cur.enumerated = <<>>
        /\ Cur.hashed = <<>>
        /\ Cur.moved = <<>>
        /\ (~ (Resolve(ReviewDir(Cur.target)) \in Cur.pre_dirs)
               => ~ (Resolve(ReviewDir(Cur.target)) \in dirs))

\* both operations were refused on a protected root that holds a file and an
\* empty folder
C2_Witness ==
    /\ Len(hist) = 2
    /\ hist[1].op = "find_and_move"
    /\ hist[2].op = "sweep"
    /\ ~hist[2].dry
    /\ ~hist[1].safe
    /\ ~hist[2].safe
    /\ \E p \in DOMAIN files : IsPrefix(Resolve(target_dir), p)
    /\ \E d \in dirs : Parent(d) = Resolve(target_dir) /\ Entries(d, dirs) = <<>>

\* C3: every duplicate group has at least 2 members, and all members of one
\* group have the same digest and the same byte size, whatever files exist and
\* whichever of them cannot be hashed.
C3_GroupsAreTrueDuplicates ==
    (hist # <<>> /\ Cur.op = "find_and_move") =>
        \A g \in DOMAIN duplicates :
            /\ Len(duplicates[g].paths) >= 2
            /\ \A i, j \in DOMAIN duplicates[g].paths :
                 LET ci == Cur.pre_files[Resolve(duplicates[g].paths[i])]
                     cj == Cur.pre_files[Resolve(duplicates[g].paths[j])]
                 IN /\ DigestOf(ci) = DigestOf(cj)
                    /\ DigestOf(ci) = duplicates[g].key
                    /\ Len(ci) = Len(cj)

\* a run formed a group although a file of the same size could not be hashed
C3_Witness ==
    /\ hist # <<>>
    /\ Cur.op = "find_and_move"
    /\ duplicates # <<>>
    /\ \E u \in unreadable : \E i \in DOMAIN Cur.hashed : Resolve(Cur.hashed[i]) = u

\* C4: in every duplicate group the member enumerated first is the original
\* and is never moved; only the later-enumerated members are moved.
C4_FirstSeenIsKept ==
    (hist # <<>> /\ Cur.op = "find_and_move") =>
        /\ \A g \in DOMAIN duplicates :
             LET paths == duplicates[g].paths
                 original == paths[1]
             IN /\ IndexOf(Cur.enumerated, original) > 0
                /\ \A k \in 2..Len(paths) :
                     IndexOf(Cur.enumerated, original) < IndexOf(Cur.enumerated, paths[k])
                /\ ~ (original \in MovedFrom(Cur))
                /\ Resolve(original) \in DOMAIN files
                /\ files[Resolve(original)] = Cur.pre_files[Resolve(original)]
        /\ \A src \in MovedFrom(Cur) :
             \E g \in DOMAIN duplicates : \E k \in 2..Len(duplicates[g].paths) :
                 duplicates[g].paths[k] = src

\* a finished run that moved a duplicate of each of two groups
C4_Witness ==
    /\ hist # <<>>
    /\ Cur.op = "find_and_move"
    /\ Cur.done
    /\ Len(duplicates) = 2
    /\ Len(Cur.moved) >= 2

\* the first two operations were two finished runs of find_and_move on a root
\* the guard accepts, one right after the other
TwoRunsInARow ==
    /\ Len(hist) >= 2
    /\ hist[1].op = "find_and_move"
    /\ hist[2].op = "find_and_move"
    /\ hist[2].done
    /\ hist[1].safe

\* the files below the root and outside its review directory when run rec began
OutsideReview(rec) ==
    {p \in DOMAIN rec.pre_files :
        /\ IsPrefix(Resolve(rec.target), p)
        /\ ~IsPrefix(Resolve(ReviewDir(rec.target)), p)}

\* two files of the same content were outside the review directory when rec began
DuplicatePairsOutside(rec) ==
    {pq \in OutsideReview(rec) \X OutsideReview(rec) :
        pq[1] # pq[2] /\ rec.pre_files[pq[1]] = rec.pre_files[pq[2]]}

\* C5 as stated: the second of two runs in a row moves nothing, scans nothing
\* inside Duplicate_Review, and finds no duplicate pair left outside it.
C5_SecondRunFindsNoPair ==
    TwoRunsInARow =>
        /\ hist[2].moved = <<>>
        /\ \A i \in DOMAIN hist[2].enumerated :
             ~ (ReviewDir(hist[2].target) \in Parents(hist[2].enumerated[i]))
        /\ DuplicatePairsOutside(hist[2]) = {}

\* C5 (amended): the second of two runs in a row, with the same files unreadable
\* and locked in both, moves nothing and scans nothing inside Duplicate_Review;
\* a duplicate pair is left outside it only when one of the two files could not
\* be hashed or could not be moved.
C5_SecondRunMovesNothing ==
    TwoRunsInARow =>
        /\ hist[2].moved = <<>>
        /\ \A i \in DOMAIN hist[2].enumerated :
             ~ (ReviewDir(hist[2].target) \in Parents(hist[2].enumerated[i]))
        /\ \A pq \in DuplicatePairsOutside(hist[2]) :
             \/ pq[1] \in unreadable \cup locked
             \/ pq[2] \in unreadable \cup locked

\* the first run moved a duplicate and failed to move another, and the second
\* run, with files in the review directory, failed on it again
C5_Witness ==
    /\ TwoRunsInARow
    /\ hist[1].moved # <<>>
    /\ hist[1].failed # <<>>
    /\ hist[2].failed # <<>>
    /\ \E p \in DOMAIN hist[2].pre_files :
         IsPrefix(Resolve(ReviewDir(hist[2].target)), p)

\* the counter token of a resolution: ' (n)' or '_n'
CounterToken(by, n) ==
    IF by = "get_unique_path" THEN <<" (">> \o IntToStr(n) \o <<")">>
    ELSE <<"_">> \o IntToStr(n)

\* C6: destination resolution returns the desired path unchanged when it does
\* not exist; otherwise a path of the same directory that does not exist and
\* whose name is the desired name with a counter token before the extension.
C6_ResolvedDestinationIsFree ==
    resolved.by # "none" =>
        /\ ~Exists(resolved.path)
        /\ Parent(resolved.path) = Parent(desired)
        /\ (~Exists(desired) => resolved.path = desired)
        /\ (Exists(desired) =>
               \E n \in 1..(Cardinality(DOMAIN files) + 1) :
                   Name(resolved.path) =
                       Stem(Name(desired)) \o CounterToken(resolved.by, n)
                           \o Suffix(Name(desired)))

\* get_unique_path found the desired name and its first counted form taken
C6_Witness ==
    /\ resolved.by = "get_unique_path"
    /\ Exists(desired)
    /\ Name(resolved.path) = <<"a", " (", "2", ")", ".", "txt">>

\* the log lines of a failed move
MoveFailures == {i \in DOMAIN log : log[i].event = "move_failed"}

RECURSIVE FailedSoFar(_)
\* how many moves failed in the operations of h
FailedSoFar(h) == IF h = <<>> THEN 0 ELSE Len(Head(h).failed) + FailedSoFar(Tail(h))

\* C7: a failed move leaves the source where it was and is written to the
\* log, and every remaining duplicate of the group and of the later groups is
\* still attempted.
C7_FailedMoveIsLocal ==
    (hist # <<>> /\ Cur.op = "find_and_move") =>
        /\ \A i \in DOMAIN Cur.failed :
             LET dupe == Cur.failed[i]
             IN /\ Resolve(dupe) \in DOMAIN files
                /\ files[Resolve(dupe)] = Cur.pre_files[Resolve(dupe)]
                /\ \E l \in MoveFailures : log[l].level = "ERROR" /\ log[l].path = dupe
        /\ Cardinality(MoveFailures) = FailedSoFar(hist)
        /\ (Cur.done =>
               \A g \in DOMAIN duplicates : \A k \in 2..Len(duplicates[g].paths) :
                   \/ duplicates[g].paths[k] \in MovedFrom(Cur)
                   \/ duplicates[g].paths[k] \in Range(Cur.failed))

\* a run failed to move one duplicate and moved another one after it
C7_Witness ==
    /\ Len(hist) = 1
    /\ Cur.op = "find_and_move"
    /\ Cur.done
    /\ \E i, j \in DOMAIN log :
         i < j /\ log[i].event = "move_failed" /\ log[j].event = "moved"

\* C8: when the target does not exist or is a broken link, is_path_safe
\* returns False.
C8_MissingTargetIsUnsafe ==
    (guard_result # "none" /\ ~Exists(target_dir)) => guard_result = "False"

\* C9: a run of find_and_move on a root the guard refuses writes a
\* security-violation event to the log before it returns.
C9_RefusalIsLogged ==
    \A i \in DOMAIN hist :
        (hist[i].op = "find_and_move" /\ ~hist[i].safe /\ hist[i].done) =>
            \E l \in DOMAIN log : log[l].event = "security_violation"

\* C10: no run of find_and_move enumerates, hashes or moves a file located
\* under a protected root, whatever the root entered.
C10_ProtectedFilesNeverScanned ==
    \A i \in DOMAIN hist :
        hist[i].op = "find_and_move" =>
            \A p \in Range(hist[i].enumerated) \cup Range(hist[i].hashed)
                        \cup MovedFrom(hist[i]) :
                ~UnderProtectedRoot(p)

RECURSIVE MovedBytes(_, _)
\* the total size, before the run, of the files the moves ms took away
MovedBytes(ms, pre_files) ==
    IF ms = <<>> THEN 0
    ELSE Len(pre_files[Resolve(Head(ms)[1])]) + MovedBytes(Tail(ms), pre_files)

\* the latest operation is a run of find_and_move that printed its report
Reported ==
    /\ hist # <<>>
    /\ Cur.op = "find_and_move"
    /\ Cur.done
    /\ duplicates # <<>>

\* C11: at the end of a run the reported count of moved duplicates and the
\* reported total space of moved duplicates are the number and the total byte
\* size of the files the run moved into Duplicate_Review, whichever moves failed.
C11_ReportMatchesMoves ==
    Reported =>
        /\ stdout[Len(stdout) - 1] = Printed("moved", Len(Cur.moved), 0)
        /\ space_saved = MovedBytes(Cur.moved, Cur.pre_files)
        /\ stdout[Len(stdout)] =
               Printed("space", 0, FormatMB(MovedBytes(Cur.moved, Cur.pre_files)))

\* the files below the root when run rec began
UnderRoot(rec) ==
    {p \in DOMAIN rec.pre_files : IsPrefix(Resolve(rec.target), p)}

\* the files now below the root of rec and outside its review directory
NowOutsideReview(rec) ==
    {q \in DOMAIN files :
        /\ IsPrefix(Resolve(rec.target), q)
        /\ ~IsPrefix(Resolve(ReviewDir(rec.target)), q)}

\* every file that was below the root is where it was, or in the review
\* directory where a move of the run put it, with its content; no two files
\* became one
NothingLost(rec) ==
    /\ \A p \in UnderRoot(rec) :
         \/ p \in DOMAIN files /\ files[p] = rec.pre_files[p]
         \/ \E i \in DOMAIN rec.moved :
              LET dst == Resolve(rec.moved[i][2])
              IN /\ Resolve(rec.moved[i][1]) = p
                 /\ IsPrefix(Resolve(ReviewDir(rec.target)), dst)
                 /\ dst \in DOMAIN files
                 /\ files[dst] = rec.pre_files[p]
    /\ Cardinality(DOMAIN files) = Cardinality(DOMAIN rec.pre_files)

\* C12 as stated: no file is deleted or overwritten, and every content digest
\* present under the root before the run is still that of a file outside
\* Duplicate_Review.
C12_EveryDigestStaysOutside ==
    (hist # <<>> /\ Cur.op = "find_and_move") =>
        /\ NothingLost(Cur)
        /\ \A p \in UnderRoot(Cur) :
             \E q \in NowOutsideReview(Cur) :
                 DigestOf(files[q]) = DigestOf(Cur.pre_files[p])

\* C12 (amended): no file is deleted or overwritten, and every content digest
\* present under the root and outside Duplicate_Review before the run is still
\* that of a file outside Duplicate_Review.
C12_NothingLostOriginalsStay ==
    (hist # <<>> /\ Cur.op = "find_and_move") =>
        /\ NothingLost(Cur)
        /\ \A p \in OutsideReview(Cur) :
             \E q \in NowOutsideReview(Cur) :
                 DigestOf(files[q]) = DigestOf(Cur.pre_files[p])

\* a finished run failed on one duplicate and moved another one under a
\* counted name, the plain name being taken in the review directory
C12_Witness ==
    /\ hist # <<>>
    /\ Cur.op = "find_and_move"
    /\ Cur.done
    /\ Cur.failed # <<>>
    /\ \E i \in DOMAIN Cur.moved : Name(Cur.moved[i][2]) # Name(Cur.moved[i][1])

====
